---- MODULE Spec2Model ----
(***************************************************************************)
(* Model of the text layout engines of o4t (src/src/wrap.rs): the          *)
(* WordWrapper and LineTruncator state machines behind the LineComposer    *)
(* trait.  A styled grapheme is a record [symbol, style]; the style is an  *)
(* opaque payload the engines only carry, modelled as the tag              *)
(* <<line, position>> of the grapheme in the input, so that every          *)
(* grapheme of an input is distinguishable from every other.               *)
(* The module also models the typing game that owns the engines: the App   *)
(* of src/src/app.rs and the event loop run_app of src/src/main.rs.        *)
(***************************************************************************)
EXTENDS Integers, Sequences, FiniteSets, TLC

VARIABLES
    composer,            \* which LineComposer was constructed
    lines,               \* the logical lines handed to the constructor
    input_lines,         \* those input_lines.next() has not yielded yet
    max_line_width,
    trim,
    horizontal_offset,
    wrapped_lines,
    current_alignment,
    current_line,
    pending_word,
    pending_whitespace,
    pending_line_pool,
    result,              \* what the last call of next_line returned
    emitted,             \* every Some(WrappedLine) returned so far, in order
    calls,               \* calls of next_line made after the input ran out
    scan,                \* the u16 locals of a call that is followed symbol by
                         \* symbol, and where that call is
    app,                 \* the App that run_app works on
    events,              \* what the loop of run_app has yet to receive: ticks
                         \* of the background task and keys of the terminal
    run                  \* where run_app is

vars == <<composer, lines, input_lines, max_line_width, trim, horizontal_offset,
          wrapped_lines, current_alignment, current_line, pending_word,
          pending_whitespace, pending_line_pool, result, emitted, calls, scan,
          app, events, run>>

----------------------------------------------------------------------------
(* Bounds of the model *)

MaxLen == 4
MaxTotal == 2
MaxLines == 2
MaxWidth == 3
MaxOffset == 2
MaxWordLen == 15
MaxWordWidth == 10
MaxCalls == 2

\* The game: the events of a short session, the seconds a game lasts
\* (config.time), and the milliseconds of a frame
MaxKeys == 4
MaxTime == 1
FrameMillis == 500

----------------------------------------------------------------------------
(* Graphemes *)

ZWSP == "ZWSP"
NBSP == "NBSP"

\* One ordinary letter, one double-width letter, a space, the zero-width
\* space, the non-breaking space, a zero-width combining mark and the
\* double-width ideographic space; "" is what the truncator leaves of a
\* grapheme it skips.
Symbols == {"a", "W", " ", ZWSP, NBSP, "c", "S"}

Alignments == {"Left", "Center", "Right"}

SymbolWidth(symbol) ==
    CASE symbol = "a" -> 1
      [] symbol = "W" -> 2
      [] symbol = " " -> 1
      [] symbol = ZWSP -> 0
      [] symbol = NBSP -> 1
      [] symbol = "c" -> 0
      [] symbol = "S" -> 2
      [] symbol = "" -> 0

CharsAllWhitespace(symbol) == symbol \in {" ", NBSP, "S", ""}

is_whitespace_grapheme(grapheme) ==
    LET symbol == grapheme.symbol
    IN  symbol = ZWSP \/ (CharsAllWhitespace(symbol) /\ symbol # NBSP)

RECURSIVE SumWidth(_)
SumWidth(s) ==
    IF s = <<>> THEN 0 ELSE SymbolWidth(Head(s).symbol) + SumWidth(Tail(s))

SatSub(a, b) == IF a > b THEN a - b ELSE 0

----------------------------------------------------------------------------
(* Vec<StyledGrapheme>: its elements, and whether it owns an allocation *)

VecNew == [elems |-> <<>>, cap |-> FALSE]

VecExtend(v, s) == [elems |-> v.elems \o s, cap |-> v.cap \/ s # <<>>]

\* Mutant of VecClear: the elements stay in the buffer
VecClear_ElementsKept(v) == v

VecClear(v) == [elems |-> <<>>, cap |-> v.cap]

----------------------------------------------------------------------------
(* WordWrapper::process_input.  The locals of the function, the fields it  *)
(* writes and the iterator over the symbols travel in one record p.        *)

\* Mutant of SymbolTooWide: the limit is taken one too large
SymbolTooWide_OffByOne(symbol_width, max) == symbol_width > max + 1

\* wrap.rs:96, the test that drops a symbol wider than the line limit
SymbolTooWide(symbol_width, max) == symbol_width > max

\* Mutant of SegmentFinished: the overflow tests fire when the limit is
\* reached, not when it is exceeded
SegmentFinished_AtLimit(p, is_whitespace, symbol_width, max, tr) ==
    LET word_found == p.non_whitespace_previous /\ is_whitespace
        trimmed_overflow ==
            /\ p.pending_line.elems = <<>>
            /\ tr
            /\ p.word_width + symbol_width >= max
        whitespace_overflow ==
            /\ p.pending_line.elems = <<>>
            /\ tr
            /\ p.whitespace_width + symbol_width >= max
        untrimmed_overflow ==
            /\ p.pending_line.elems = <<>>
            /\ ~tr
            /\ p.word_width + p.whitespace_width + symbol_width >= max
    IN  word_found \/ trimmed_overflow \/ whitespace_overflow \/ untrimmed_overflow

\* wrap.rs:100-115, whether the finished segment is appended to the line
SegmentFinished(p, is_whitespace, symbol_width, max, tr) ==
    LET word_found == p.non_whitespace_previous /\ is_whitespace
        trimmed_overflow ==
            /\ p.pending_line.elems = <<>>
            /\ tr
            /\ p.word_width + symbol_width > max
        whitespace_overflow ==
            /\ p.pending_line.elems = <<>>
            /\ tr
            /\ p.whitespace_width + symbol_width > max
        untrimmed_overflow ==
            /\ p.pending_line.elems = <<>>
            /\ ~tr
            /\ p.word_width + p.whitespace_width + symbol_width > max
    IN  word_found \/ trimmed_overflow \/ whitespace_overflow \/ untrimmed_overflow

\* Mutant of AppendSegment: the pending whitespace is kept in front of the
\* word whatever the trim setting
AppendSegment_WhitespaceKept(p, tr) ==
    [p EXCEPT !.pending_line =
                  VecExtend(VecExtend(@, p.pending_whitespace), p.pending_word),
              !.line_width = @ + p.whitespace_width + p.word_width,
              !.pending_word = <<>>,
              !.pending_whitespace = <<>>,
              !.whitespace_width = 0,
              !.word_width = 0]

\* wrap.rs:116-126
AppendSegment(p, tr) ==
    LET keep == p.pending_line.elems # <<>> \/ ~tr
        withSpace == IF keep
                     THEN VecExtend(p.pending_line, p.pending_whitespace)
                     ELSE p.pending_line
        width1 == IF keep THEN p.line_width + p.whitespace_width ELSE p.line_width
    IN  [p EXCEPT !.pending_line = VecExtend(withSpace, p.pending_word),
                  !.line_width = width1 + p.word_width,
                  !.pending_word = <<>>,
                  !.pending_whitespace = <<>>,
                  !.whitespace_width = 0,
                  !.word_width = 0]

\* wrap.rs:129-136, whether the pending line is pushed to wrapped_lines
LineFinished(p, symbol_width, max) ==
    LET line_full == p.line_width >= max
        pending_word_overflow ==
            /\ symbol_width > 0
            /\ p.line_width + p.whitespace_width + p.word_width >= max
    IN  line_full \/ pending_word_overflow

\* Mutant of RemoveWhitespace: all the pending whitespace is removed,
\* whatever width remains on the line
RemoveWhitespace_All(w) ==
    [pending_whitespace |-> <<>>,
     whitespace_width |-> 0,
     remaining_width |-> SatSub(w.remaining_width, w.whitespace_width)]

\* wrap.rs:143-153, the while loop that removes whitespace up to the end of
\* the line; w is [pending_whitespace, whitespace_width, remaining_width]
RECURSIVE RemoveWhitespace(_)
RemoveWhitespace(w) ==
    IF w.pending_whitespace = <<>>
    THEN w
    ELSE LET width == SymbolWidth(Head(w.pending_whitespace).symbol)
         IN  IF width > w.remaining_width
             THEN w
             ELSE RemoveWhitespace(
                    [pending_whitespace |-> Tail(w.pending_whitespace),
                     whitespace_width |-> w.whitespace_width - width,
                     remaining_width |-> w.remaining_width - width])

\* wrap.rs:137-153
PushWrappedLine(p, max) ==
    LET w == RemoveWhitespace(
                [pending_whitespace |-> p.pending_whitespace,
                 whitespace_width |-> p.whitespace_width,
                 remaining_width |-> SatSub(max, p.line_width)])
    IN  [p EXCEPT !.wrapped_lines = Append(@, p.pending_line),
                  !.pending_line = VecNew,
                  !.line_width = 0,
                  !.pending_whitespace = w.pending_whitespace,
                  !.whitespace_width = w.whitespace_width]

\* wrap.rs:161-170
PushSymbol(p, grapheme, is_whitespace, symbol_width) ==
    IF is_whitespace
    THEN [p EXCEPT !.whitespace_width = @ + symbol_width,
                   !.pending_whitespace = Append(@, grapheme),
                   !.non_whitespace_previous = FALSE]
    ELSE [p EXCEPT !.word_width = @ + symbol_width,
                   !.pending_word = Append(@, grapheme),
                   !.non_whitespace_previous = TRUE]

\* wrap.rs:92-170, one iteration of the loop over line_symbols
ProcessSymbol(p, grapheme, max, tr) ==
    LET is_whitespace == is_whitespace_grapheme(grapheme)
        symbol_width == SymbolWidth(grapheme.symbol)
        p1 == IF SegmentFinished(p, is_whitespace, symbol_width, max, tr)
              THEN AppendSegment(p, tr)
              ELSE p
        finished == LineFinished(p1, symbol_width, max)
        p2 == IF finished THEN PushWrappedLine(p1, max) ELSE p1
    IN  IF SymbolTooWide(symbol_width, max)
        THEN p
        ELSE IF finished /\ is_whitespace /\ p2.pending_whitespace = <<>>
             THEN p2
             ELSE PushSymbol(p2, grapheme, is_whitespace, symbol_width)

\* wrap.rs:91-171, the loop; p.line_symbols is what the iterator has left
RECURSIVE ProcessSymbols(_, _, _)
ProcessSymbols(p, max, tr) ==
    IF p.line_symbols = <<>>
    THEN p
    ELSE ProcessSymbols(
           [ProcessSymbol(p, Head(p.line_symbols), max, tr)
               EXCEPT !.line_symbols = Tail(p.line_symbols)],
           max, tr)

\* wrap.rs:174-179, the empty line pushed for a line of whitespace only
PushEmptyForWhitespace(p) ==
    IF /\ p.pending_line.elems = <<>>
       /\ p.pending_word = <<>>
       /\ p.pending_whitespace # <<>>
    THEN [p EXCEPT !.wrapped_lines = Append(@, VecNew)]
    ELSE p

\* Mutant of AppendRemaining: the pending word is appended under the same
\* condition as the pending whitespace
AppendRemaining_WordGuarded(p, tr) ==
    LET keep == p.pending_line.elems # <<>> \/ ~tr
    IN  IF keep
        THEN [p EXCEPT !.pending_line =
                           VecExtend(VecExtend(@, p.pending_whitespace), p.pending_word),
                       !.pending_whitespace = <<>>,
                       !.pending_word = <<>>]
        ELSE p

\* wrap.rs:180-183
AppendRemaining(p, tr) ==
    LET keep == p.pending_line.elems # <<>> \/ ~tr
        withSpace == IF keep
                     THEN VecExtend(p.pending_line, p.pending_whitespace)
                     ELSE p.pending_line
    IN  [p EXCEPT !.pending_line = VecExtend(withSpace, p.pending_word),
                  !.pending_whitespace = IF keep THEN <<>> ELSE @,
                  !.pending_word = <<>>]

\* wrap.rs:186-190
PushLastLine(p) ==
    IF p.pending_line.elems # <<>>
    THEN [p EXCEPT !.wrapped_lines = Append(@, p.pending_line)]
    ELSE IF p.pending_line.cap
         THEN [p EXCEPT !.pending_line_pool = Append(@, p.pending_line)]
         ELSE p

\* Mutant of PushEmptyIfNone: no empty line stands in for a line that
\* produced nothing
PushEmptyIfNone_Skipped(p) == p

\* wrap.rs:191-193
PushEmptyIfNone(p) ==
    IF p.wrapped_lines = <<>>
    THEN [p EXCEPT !.wrapped_lines = Append(@, VecNew)]
    ELSE p

\* Mutant of TakePendingLine: the buffer taken from the pool keeps the
\* graphemes of the line that was returned in it
TakePendingLine_NotCleared(w, line_symbols) ==
    LET n == Len(w.pending_line_pool)
    IN  [line_symbols |-> line_symbols,
         pending_line |-> IF n = 0 THEN VecNew ELSE w.pending_line_pool[n],
         pending_line_pool |-> IF n = 0 THEN <<>>
                               ELSE SubSeq(w.pending_line_pool, 1, n - 1),
         line_width |-> 0,
         word_width |-> 0,
         whitespace_width |-> 0,
         non_whitespace_previous |-> FALSE,
         pending_word |-> <<>>,
         pending_whitespace |-> <<>>,
         wrapped_lines |-> w.wrapped_lines]

\* wrap.rs:81-89, the pending line taken from the pool and the locals
TakePendingLine(w, line_symbols) ==
    LET n == Len(w.pending_line_pool)
    IN  [line_symbols |-> line_symbols,
         pending_line |-> IF n = 0 THEN VecNew
                          ELSE VecClear(w.pending_line_pool[n]),
         pending_line_pool |-> IF n = 0 THEN <<>>
                               ELSE SubSeq(w.pending_line_pool, 1, n - 1),
         line_width |-> 0,
         word_width |-> 0,
         whitespace_width |-> 0,
         non_whitespace_previous |-> FALSE,
         pending_word |-> <<>>,
         pending_whitespace |-> <<>>,
         wrapped_lines |-> w.wrapped_lines]

\* wrap.rs:80-194; w holds the fields of the WordWrapper
process_input(w, line_symbols) ==
    LET p == PushEmptyIfNone(PushLastLine(AppendRemaining(PushEmptyForWhitespace(
                 ProcessSymbols(TakePendingLine(w, line_symbols),
                                w.max_line_width, w.trim)), w.trim)))
    IN  [w EXCEPT !.wrapped_lines = p.wrapped_lines,
                  !.pending_word = p.pending_word,
                  !.pending_whitespace = p.pending_whitespace,
                  !.pending_line_pool = p.pending_line_pool]

\* wrap.rs:196-201
replace_current_line(w, line) ==
    [w EXCEPT !.current_line = line,
              !.pending_line_pool = IF w.current_line.cap
                                    THEN Append(@, w.current_line)
                                    ELSE @]

----------------------------------------------------------------------------
(* LineComposer::next_line.  A call returns the engine after the call and  *)
(* what it returned: None, or Some(WrappedLine) borrowing current_line.    *)

None == [some |-> FALSE, line |-> <<>>, width |-> 0, alignment |-> "Left"]

Some(line, width, alignment) ==
    [some |-> TRUE, line |-> line, width |-> width, alignment |-> alignment]

\* wrap.rs:58-71
WordWrapperNew(input, max, tr) ==
    [input_lines |-> input,
     max_line_width |-> max,
     wrapped_lines |-> <<>>,
     current_alignment |-> "Left",
     current_line |-> VecNew,
     trim |-> tr,
     pending_word |-> <<>>,
     pending_line_pool |-> <<>>,
     pending_whitespace |-> <<>>]

\* Mutant of ZeroWidth: the early return is missing
ZeroWidth_Missing(max) == FALSE

\* wrap.rs:211
ZeroWidth(max) == max = 0

\* Mutant of EmitCached: the width reported is the number of graphemes
EmitCached_GraphemesCounted(w) ==
    LET line == Head(w.wrapped_lines)
        w1 == replace_current_line([w EXCEPT !.wrapped_lines = Tail(@)], line)
    IN  [self |-> w1,
         ret |-> Some(w1.current_line.elems, Len(line.elems), w1.current_alignment)]

\* wrap.rs:217-228, the cached line that is popped and returned
EmitCached(w) ==
    LET line == Head(w.wrapped_lines)
        line_width == SumWidth(line.elems)
        w1 == replace_current_line([w EXCEPT !.wrapped_lines = Tail(@)], line)
    IN  [self |-> w1,
         ret |-> Some(w1.current_line.elems, line_width, w1.current_alignment)]

\* Mutant of TakeInput: the alignment of the new logical line is not stored
TakeInput_AlignmentKept(w) ==
    LET next == Head(w.input_lines)
    IN  process_input([w EXCEPT !.input_lines = Tail(@)], next.symbols)

\* wrap.rs:232-234, the next logical line taken from the input and processed
TakeInput(w) ==
    LET next == Head(w.input_lines)
    IN  process_input([w EXCEPT !.input_lines = Tail(@),
                                !.current_alignment = next.alignment],
                      next.symbols)

\* Mutant of WordWrapperLoop: when the input has run out, the buffer of the
\* line returned last goes back to wrapped_lines
RECURSIVE WordWrapperLoop_BufferRequeued(_)
WordWrapperLoop_BufferRequeued(w) ==
    IF w.wrapped_lines # <<>>
    THEN EmitCached(w)
    ELSE IF w.input_lines = <<>>
         THEN [self |-> [w EXCEPT !.wrapped_lines =
                                      IF w.current_line.elems # <<>>
                                      THEN <<w.current_line>>
                                      ELSE <<>>,
                                  !.current_line = VecNew],
               ret |-> None]
         ELSE WordWrapperLoop_BufferRequeued(TakeInput(w))

\* wrap.rs:215-235
RECURSIVE WordWrapperLoop(_)
WordWrapperLoop(w) ==
    IF w.wrapped_lines # <<>>
    THEN EmitCached(w)
    ELSE IF w.input_lines = <<>>
         THEN [self |-> w, ret |-> None]
         ELSE WordWrapperLoop(TakeInput(w))

\* wrap.rs:210-236
WordWrapper_next_line(w) ==
    IF ZeroWidth(w.max_line_width)
    THEN [self |-> w, ret |-> None]
    ELSE WordWrapperLoop(w)

\* wrap.rs:282
TruncatorZeroWidth(max) == max = 0

\* Mutant of TruncatorSymbolTooWide: no symbol is dropped for its width
TruncatorSymbolTooWide_Never(symbol_width, max) == FALSE

\* wrap.rs:298, the test that drops a symbol wider than the line limit
TruncatorSymbolTooWide(symbol_width, max) == symbol_width > max

\* wrap.rs:262-269
LineTruncatorNew(input, max) ==
    [input_lines |-> input,
     max_line_width |-> max,
     horizontal_offset |-> 0,
     current_line |-> VecNew]

\* wrap.rs:271-273
set_horizontal_offset(t, offset) == [t EXCEPT !.horizontal_offset = offset]

\* wrap.rs:339-352; src is one grapheme cluster, so the loop over its
\* graphemes runs once
trim_offset(src, offset) == IF SymbolWidth(src) <= offset THEN "" ELSE src

\* Mutant of OffsetSymbol: the offset is applied whatever the alignment
OffsetSymbol_AnyAlignment(symbol, offset, alignment) ==
    IF offset = 0
    THEN [symbol |-> symbol, offset |-> offset]
    ELSE LET w == SymbolWidth(symbol)
         IN  IF w > offset
             THEN [symbol |-> trim_offset(symbol, offset), offset |-> 0]
             ELSE [symbol |-> "", offset |-> offset - w]

\* wrap.rs:307-319, the symbol that is pushed and the offset that is left
OffsetSymbol(symbol, offset, alignment) ==
    IF offset = 0 \/ "Left" # alignment
    THEN [symbol |-> symbol, offset |-> offset]
    ELSE LET w == SymbolWidth(symbol)
         IN  IF w > offset
             THEN [symbol |-> trim_offset(symbol, offset), offset |-> 0]
             ELSE [symbol |-> "", offset |-> offset - w]

\* Mutant of Truncated: the line is cut one column late
Truncated_OffByOne(current_line_width, symbol_width, max) ==
    current_line_width + symbol_width > max + 1

\* wrap.rs:302, whether the line is truncated before this symbol
Truncated(current_line_width, symbol_width, max) ==
    current_line_width + symbol_width > max

\* wrap.rs:296-322; c is [current_line, current_line_width, horizontal_offset]
RECURSIVE TruncateSymbols(_, _, _, _)
TruncateSymbols(c, symbols, alignment, max) ==
    IF symbols = <<>>
    THEN c
    ELSE LET grapheme == Head(symbols)
             width == SymbolWidth(grapheme.symbol)
             o == OffsetSymbol(grapheme.symbol, c.horizontal_offset, alignment)
         IN  IF TruncatorSymbolTooWide(width, max)
             THEN TruncateSymbols(c, Tail(symbols), alignment, max)
             ELSE IF Truncated(c.current_line_width, width, max)
                  THEN c
                  ELSE TruncateSymbols(
                         [current_line |->
                              VecExtend(c.current_line,
                                        <<[symbol |-> o.symbol,
                                           style |-> grapheme.style]>>),
                          current_line_width |->
                              c.current_line_width + SymbolWidth(o.symbol),
                          horizontal_offset |-> o.offset],
                         Tail(symbols), alignment, max)

\* wrap.rs:281-334
LineTruncator_next_line(t) ==
    IF TruncatorZeroWidth(t.max_line_width)
    THEN [self |-> t, ret |-> None]
    ELSE IF t.input_lines = <<>>
         THEN [self |-> [t EXCEPT !.current_line = VecClear(@)], ret |-> None]
         ELSE LET next == Head(t.input_lines)
                  c == TruncateSymbols(
                         [current_line |-> VecClear(t.current_line),
                          current_line_width |-> 0,
                          horizontal_offset |-> t.horizontal_offset],
                         next.symbols, next.alignment, t.max_line_width)
              IN  [self |-> [t EXCEPT !.input_lines = Tail(@),
                                      !.current_line = c.current_line],
                   ret |-> Some(c.current_line.elems, c.current_line_width,
                                next.alignment)]

----------------------------------------------------------------------------
(* The inputs *)

SymbolSeqs(alphabet, n) == UNION {[1..k -> alphabet] : k \in 0..n}

\* The graphemes of logical line number l made of the symbols syms, each
\* styled with its own tag
Graphemes(l, syms) ==
    [i \in 1..Len(syms) |-> [symbol |-> syms[i], style |-> <<l, i>>]]

\* One left-aligned logical line of at most MaxLen graphemes of any kind
SingleLineInputs ==
    {<<[symbols |-> Graphemes(1, syms), alignment |-> "Left"]>> :
        syms \in SymbolSeqs(Symbols, MaxLen)}

\* One logical line, of any alignment, for the truncator, which reads of a
\* symbol only its width: a symbol of each width, and a space
TruncatorSymbols == {"a", "W", "c", " "}

TruncatorLineInputs ==
    {<<[symbols |-> Graphemes(1, syms), alignment |-> al]>> :
        syms \in SymbolSeqs(TruncatorSymbols, MaxLen), al \in Alignments}

ShortSymbols == {"a", " "}

\* n logical lines, numbered from l, of at most budget graphemes in all,
\* each line with its own alignment
RECURSIVE ShortLines(_, _, _)
ShortLines(l, n, budget) ==
    IF n = 0
    THEN {<<>>}
    ELSE UNION {
           {<<[symbols |-> Graphemes(l, syms), alignment |-> al]>> \o rest :
               syms \in [1..k -> ShortSymbols], al \in Alignments,
               rest \in ShortLines(l + 1, n - 1, budget - k)} : k \in 0..budget}

ShortLinesInputs == UNION {ShortLines(1, n, MaxTotal) : n \in 0..MaxLines}

\* One logical line that is a single word of ordinary letters
LongWordInputs ==
    {<<[symbols |-> Graphemes(1, [i \in 1..n |-> "a"]), alignment |-> "Left"]>> :
        n \in 1..MaxWordLen}

----------------------------------------------------------------------------
(* The state machine: an engine is constructed over an input, and its      *)
(* owner calls next_line (and set_horizontal_offset, on a truncator).      *)

\* No call is followed symbol by symbol
NoScan == [at |-> "idle", overflowed |-> FALSE]

\* No game is played: the engine stands alone
NoGame ==
    /\ app = [current_screen |-> "None"]
    /\ events = <<>>
    /\ run = "idle"

WordWrapperSelf ==
    [input_lines |-> input_lines,
     max_line_width |-> max_line_width,
     wrapped_lines |-> wrapped_lines,
     current_alignment |-> current_alignment,
     current_line |-> current_line,
     trim |-> trim,
     pending_word |-> pending_word,
     pending_line_pool |-> pending_line_pool,
     pending_whitespace |-> pending_whitespace]

LineTruncatorSelf ==
    [input_lines |-> input_lines,
     max_line_width |-> max_line_width,
     horizontal_offset |-> horizontal_offset,
     current_line |-> current_line]

InitWordWrapper(input, max, tr) ==
    LET w == WordWrapperNew(input, max, tr)
    IN  /\ composer = "WordWrapper"
        /\ lines = input
        /\ input_lines = w.input_lines
        /\ max_line_width = w.max_line_width
        /\ trim = w.trim
        /\ horizontal_offset = 0
        /\ wrapped_lines = w.wrapped_lines
        /\ current_alignment = w.current_alignment
        /\ current_line = w.current_line
        /\ pending_word = w.pending_word
        /\ pending_whitespace = w.pending_whitespace
        /\ pending_line_pool = w.pending_line_pool
        /\ result = None
        /\ emitted = <<>>
        /\ calls = 0
        /\ scan = NoScan
        /\ NoGame

InitLineTruncator(input, max) ==
    LET t == LineTruncatorNew(input, max)
    IN  /\ composer = "LineTruncator"
        /\ lines = input
        /\ input_lines = t.input_lines
        /\ max_line_width = t.max_line_width
        /\ trim = FALSE
        /\ horizontal_offset = t.horizontal_offset
        /\ wrapped_lines = <<>>
        /\ current_alignment = "Left"
        /\ current_line = t.current_line
        /\ pending_word = <<>>
        /\ pending_whitespace = <<>>
        /\ pending_line_pool = <<>>
        /\ result = None
        /\ emitted = <<>>
        /\ calls = 0
        /\ scan = NoScan
        /\ NoGame

Init ==
    \/ \E input \in SingleLineInputs \cup ShortLinesInputs,
          max \in 0..MaxWidth, tr \in BOOLEAN :
          InitWordWrapper(input, max, tr)
    \/ \E input \in TruncatorLineInputs \cup ShortLinesInputs, max \in 0..MaxWidth :
          InitLineTruncator(input, max)
    \/ \E input \in LongWordInputs, max \in 1..MaxWordWidth :
          \/ \E tr \in BOOLEAN : InitWordWrapper(input, max, tr)
          \/ InitLineTruncator(input, max)

\* What a call adds to the record of returned lines: the line, the number
\* of the logical line consumed last, and the offset in force
Record(ret, rest) ==
    IF ret.some
    THEN Append(emitted, [line |-> ret.line, width |-> ret.width,
                          alignment |-> ret.alignment,
                          source |-> Len(lines) - Len(rest),
                          offset |-> horizontal_offset])
    ELSE emitted

WordWrapperNextLine ==
    /\ composer = "WordWrapper"
    /\ calls < MaxCalls
    /\ \E r \in {WordWrapper_next_line(WordWrapperSelf)} :
           /\ input_lines' = r.self.input_lines
           /\ wrapped_lines' = r.self.wrapped_lines
           /\ current_alignment' = r.self.current_alignment
           /\ current_line' = r.self.current_line
           /\ pending_word' = r.self.pending_word
           /\ pending_whitespace' = r.self.pending_whitespace
           /\ pending_line_pool' = r.self.pending_line_pool
           /\ result' = r.ret
           /\ emitted' = Record(r.ret, r.self.input_lines)
           /\ calls' = IF r.ret.some THEN calls ELSE calls + 1
    /\ UNCHANGED <<composer, lines, max_line_width, trim, horizontal_offset, scan,
                   app, events, run>>

LineTruncatorNextLine ==
    /\ composer = "LineTruncator"
    /\ calls < MaxCalls
    /\ \E r \in {LineTruncator_next_line(LineTruncatorSelf)} :
           /\ input_lines' = r.self.input_lines
           /\ current_line' = r.self.current_line
           /\ result' = r.ret
           /\ emitted' = Record(r.ret, r.self.input_lines)
           /\ calls' = IF r.ret.some THEN calls ELSE calls + 1
    /\ UNCHANGED <<composer, lines, max_line_width, trim, horizontal_offset,
                   wrapped_lines, current_alignment, pending_word,
                   pending_whitespace, pending_line_pool, scan, app, events, run>>

\* The owner of a truncator sets the offset before it pulls the first line
SetHorizontalOffset ==
    /\ composer = "LineTruncator"
    /\ input_lines = lines
    /\ calls = 0
    /\ \E offset \in 0..MaxOffset :
          /\ offset # horizontal_offset
          /\ horizontal_offset' = set_horizontal_offset(LineTruncatorSelf, offset).horizontal_offset
    /\ UNCHANGED <<composer, lines, input_lines, max_line_width, trim,
                   wrapped_lines, current_alignment, current_line, pending_word,
                   pending_whitespace, pending_line_pool, result, emitted, calls,
                   scan, app, events, run>>

Next ==
    \/ WordWrapperNextLine
    \/ LineTruncatorNextLine
    \/ SetHorizontalOffset

Spec == Init /\ [][Next]_vars

----------------------------------------------------------------------------
(* The u16 arithmetic of the two loops.  A line long enough to bring a u16 *)
(* width to its limit cannot be processed in one step, so here a call of   *)
(* next_line on one left-aligned logical line of ordinary letters is       *)
(* followed symbol by symbol.  scan holds the locals of the call; a buffer *)
(* is held by the number of its graphemes, all letters of width 1, and the *)
(* line by scan.rest, the number of letters its iterator has left.  An     *)
(* addition whose sum exceeds U16Max panics where overflow checks are      *)
(* compiled in and wraps where they are not: both outcomes are steps.      *)

\* u16::MAX, the widths being u16 (wrap.rs:40, 251)
U16Max == 65535

\* The length of the longest logical line
MaxColumns == 65536

Wrap16(n) == n % (U16Max + 1)

\* wrap.rs:81-89 and 262-269, the locals when the loop is entered
ScanNew(engine, n) ==
    IF engine = "WordWrapper"
    THEN [at |-> "process_input", overflowed |-> FALSE, rest |-> n,
          line_width |-> 0, word_width |-> 0, whitespace_width |-> 0,
          non_whitespace_previous |-> FALSE,
          pending_line |-> 0, pending_word |-> 0, pending_whitespace |-> 0,
          wrapped_lines |-> <<>>, width |-> 0]
    ELSE [at |-> "truncate", overflowed |-> FALSE, rest |-> n,
          current_line_width |-> 0, current_line |-> 0, width |-> 0]

\* The outcomes of a step that leads to next when no addition overflows
Outcome(next, overflows) ==
    \/ ~overflows /\ scan' = next
    \/ overflows /\ scan' = [scan EXCEPT !.at = "panicked"]
    \/ overflows /\ scan' = [next EXCEPT !.overflowed = TRUE]

\* wrap.rs:92-170 for a letter: the locals after the iteration, and whether
\* one of the additions it evaluated overflowed
ProcessLetter(p, max, tr) ==
    LET symbol_width == SymbolWidth("a")
        empty == p.pending_line = 0
        s1 == p.word_width + symbol_width
        s2 == p.whitespace_width + symbol_width
        s3 == p.word_width + p.whitespace_width
        s4 == Wrap16(s3) + symbol_width
        trimmed_overflow == empty /\ tr /\ Wrap16(s1) > max
        whitespace_overflow == empty /\ tr /\ Wrap16(s2) > max
        untrimmed_overflow == empty /\ ~tr /\ Wrap16(s4) > max
        segment == trimmed_overflow \/ whitespace_overflow \/ untrimmed_overflow
        keep == ~empty \/ ~tr
        f1 == p.line_width + p.whitespace_width
        f2 == (IF keep THEN Wrap16(f1) ELSE p.line_width) + p.word_width
        p1 == IF segment
              THEN [p EXCEPT !.pending_line =
                                 @ + (IF keep THEN p.pending_whitespace ELSE 0)
                                   + p.pending_word,
                             !.line_width = Wrap16(f2),
                             !.pending_word = 0,
                             !.pending_whitespace = 0,
                             !.whitespace_width = 0,
                             !.word_width = 0]
              ELSE p
        g1 == p1.line_width + p1.whitespace_width
        g2 == Wrap16(g1) + p1.word_width
        line_full == p1.line_width >= max
        pending_word_overflow == symbol_width > 0 /\ Wrap16(g2) >= max
        p2 == IF line_full \/ pending_word_overflow
              THEN [p1 EXCEPT !.wrapped_lines = Append(@, p1.pending_line),
                              !.pending_line = 0,
                              !.line_width = 0]
              ELSE p1
        h == p2.word_width + symbol_width
    IN  [next |-> IF symbol_width > max
                  THEN [p EXCEPT !.rest = @ - 1]
                  ELSE [p2 EXCEPT !.word_width = Wrap16(h),
                                  !.pending_word = @ + 1,
                                  !.non_whitespace_previous = TRUE,
                                  !.rest = @ - 1],
         overflows |->
            /\ symbol_width <= max
            /\ \/ empty /\ tr /\ (s1 > U16Max \/ s2 > U16Max)
               \/ empty /\ ~tr /\ (s3 > U16Max \/ s4 > U16Max)
               \/ segment /\ keep /\ f1 > U16Max
               \/ segment /\ f2 > U16Max
               \/ symbol_width > 0 /\ (g1 > U16Max \/ g2 > U16Max)
               \/ h > U16Max]

\* wrap.rs:217-228 on the lengths: the front line leaves wrapped_lines and
\* the sum of its widths is returned
EmitFront(p) ==
    [next |-> [p EXCEPT !.at = "returned",
                        !.wrapped_lines = Tail(@),
                        !.width = Wrap16(Head(p.wrapped_lines) * SymbolWidth("a"))],
     overflows |-> Head(p.wrapped_lines) * SymbolWidth("a") > U16Max]

\* wrap.rs:174-193, the end of process_input on the lengths
ProcessEnd(p, tr) ==
    LET keep == p.pending_line # 0 \/ ~tr
        line == p.pending_line + (IF keep THEN p.pending_whitespace ELSE 0)
                    + p.pending_word
        whitespace_only == /\ p.pending_line = 0
                           /\ p.pending_word = 0
                           /\ p.pending_whitespace # 0
        w1 == IF whitespace_only THEN Append(p.wrapped_lines, 0) ELSE p.wrapped_lines
        w2 == IF line # 0 THEN Append(w1, line) ELSE w1
    IN  [p EXCEPT !.pending_line = 0,
                  !.pending_word = 0,
                  !.pending_whitespace = 0,
                  !.wrapped_lines = IF w2 = <<>> THEN <<0>> ELSE w2]

\* wrap.rs:296-322 for a letter under offset 0; the break leaves the rest of
\* the line unread
TruncateLetter(c, max) ==
    LET symbol_width == SymbolWidth("a")
        sum == c.current_line_width + symbol_width
    IN  [next |-> IF TruncatorSymbolTooWide(symbol_width, max)
                  THEN [c EXCEPT !.rest = @ - 1]
                  ELSE IF Wrap16(sum) > max
                       THEN [c EXCEPT !.rest = 0]
                       ELSE [c EXCEPT !.current_line_width = Wrap16(sum),
                                      !.current_line = @ + 1,
                                      !.rest = @ - 1],
         overflows |-> ~TruncatorSymbolTooWide(symbol_width, max) /\ sum > U16Max]

\* An engine constructed over one line of n letters, its first call of
\* next_line at the head of the loop over the symbols
InitScan ==
    \E engine \in {"WordWrapper", "LineTruncator"},
       max \in (U16Max - 1)..U16Max,
       n \in (MaxColumns - 1)..MaxColumns,
       tr \in BOOLEAN :
        /\ engine = "LineTruncator" => ~tr
        /\ composer = engine
        /\ max_line_width = max
        /\ trim = tr
        /\ scan = ScanNew(engine, n)
        /\ lines = <<>>
        /\ input_lines = <<>>
        /\ horizontal_offset = 0
        /\ wrapped_lines = <<>>
        /\ current_alignment = "Left"
        /\ current_line = VecNew
        /\ pending_word = <<>>
        /\ pending_whitespace = <<>>
        /\ pending_line_pool = <<>>
        /\ result = None
        /\ emitted = <<>>
        /\ calls = 0
        /\ NoGame

ScanFrame ==
    UNCHANGED <<composer, lines, input_lines, max_line_width, trim,
                horizontal_offset, wrapped_lines, current_alignment,
                current_line, pending_word, pending_whitespace,
                pending_line_pool, result, emitted, calls, app, events, run>>

\* One iteration of the loop of process_input
ProcessInputStep ==
    /\ scan.at = "process_input"
    /\ scan.rest > 0
    /\ \E r \in {ProcessLetter(scan, max_line_width, trim)} :
           Outcome(r.next, r.overflows)
    /\ ScanFrame

\* The loop is over: process_input ends and next_line returns the first line
ProcessInputReturn ==
    /\ scan.at = "process_input"
    /\ scan.rest = 0
    /\ \E r \in {EmitFront(ProcessEnd(scan, trim))} : Outcome(r.next, r.overflows)
    /\ ScanFrame

\* A later call of next_line returns the next cached line
EmitCachedLine ==
    /\ composer = "WordWrapper"
    /\ scan.at = "returned"
    /\ scan.wrapped_lines # <<>>
    /\ \E r \in {EmitFront(scan)} : Outcome(r.next, r.overflows)
    /\ ScanFrame

\* One iteration of the loop of the truncator
TruncateStep ==
    /\ scan.at = "truncate"
    /\ scan.rest > 0
    /\ \E r \in {TruncateLetter(scan, max_line_width)} :
           Outcome(r.next, r.overflows)
    /\ ScanFrame

\* wrap.rs:325-333
TruncateReturn ==
    /\ scan.at = "truncate"
    /\ scan.rest = 0
    /\ scan' = [scan EXCEPT !.at = "returned", !.width = scan.current_line_width]
    /\ ScanFrame

NextScan ==
    \/ ProcessInputStep
    \/ ProcessInputReturn
    \/ EmitCachedLine
    \/ TruncateStep
    \/ TruncateReturn

SpecU16 == InitScan /\ [][NextScan]_vars

----------------------------------------------------------------------------
(* The typing game.  App is the record of the fields of the struct that    *)
(* the key handlers and the timer read or write; the effects, the themes   *)
(* and the debug fields are left out, and of Score the floating-point      *)
(* rates, which nothing reads back.  A String is the sequence of its       *)
(* chars, all ASCII here.  Indices are those of the code, from 0.          *)

\* app.rs:21
NUMBER_OF_WORDS_TO_PICK == 500

\* The words the game draws from: the list itself (words.rs) is not part of
\* the sources at hand; the handlers only ever compare the chars of one
\* word with what was typed for it
Vocabulary == << <<"a">>, <<"a", "b">> >>

\* app.rs:65-70
WordAttemptNew(word) == [word |-> word, user_attempt |-> <<>>]

\* app.rs:259-267, NUMBER_OF_WORDS_TO_PICK words of the list
generate_words ==
    [i \in 1..NUMBER_OF_WORDS_TO_PICK |->
        WordAttemptNew(Vocabulary[((i - 1) % Len(Vocabulary)) + 1])]

\* app.rs:30-56, Score::default()
ScoreDefault ==
    [character_matches |-> 0,
     character_mismatches |-> 0,
     character_hits |-> 0,
     character_misses |-> 0,
     num_words |-> 0,
     best_char_streak |-> 0,
     current_char_streak |-> 0]

\* app.rs:133-156
with_config(config) ==
    [current_user_input |-> <<>>,
     current_word_offset |-> 0,
     words |-> generate_words,
     current_screen |-> "Game",
     time_remaining |-> config.time * 1000,
     game_active |-> FALSE,
     millis_at_current_game_start |-> 0,
     current_millis |-> 0,
     score |-> ScoreDefault,
     config |-> config]

\* app.rs:177-180
reset_game(a) == with_config(a.config)

\* app.rs:182-188
game_time_elapsed_millis(a) ==
    IF a.game_active
    THEN a.current_millis - a.millis_at_current_game_start
    ELSE 0

\* app.rs:190-192
game_time_remaining_millis(a) ==
    SatSub(a.time_remaining, game_time_elapsed_millis(a))

\* app.rs:201-206, what was typed for the word at index
AttemptAt(a, index) ==
    IF index # a.current_word_offset
    THEN a.words[index + 1].user_attempt
    ELSE a.current_user_input

\* app.rs:207-216, the positions of the zip of the attempt and the word,
\* and those of them where the chars are equal
ZippedAt(a, index) ==
    LET user == AttemptAt(a, index)
        word == a.words[index + 1].word
    IN  1..(IF Len(user) < Len(word) THEN Len(user) ELSE Len(word))

HitsAt(a, index) ==
    {k \in ZippedAt(a, index) :
        AttemptAt(a, index)[k] = a.words[index + 1].word[k]}

\* Mutant of refresh_internal_score: the session's hits are taken from the
\* characters that match now
refresh_internal_score_HitsFromMatches(a) ==
    LET indices == 0..(Len(a.words) - 1)
        character_matches ==
            Cardinality(UNION {{<<index, k>> : k \in HitsAt(a, index)} :
                                  index \in indices})
    IN  [a EXCEPT !.score.character_matches = character_matches,
                  !.score.character_hits = character_matches]

\* app.rs:194-256
refresh_internal_score(a) ==
    LET indices == 0..(Len(a.words) - 1)
        character_matches ==
            Cardinality(UNION {{<<index, k>> : k \in HitsAt(a, index)} :
                                  index \in indices})
        character_mismatches ==
            Cardinality(UNION {{<<index, k>> :
                                   k \in ZippedAt(a, index) \ HitsAt(a, index)} :
                                  index \in indices})
        num_correct_words ==
            Cardinality({index \in indices :
                            Cardinality(HitsAt(a, index)) =
                                Len(a.words[index + 1].word)})
    IN  [a EXCEPT !.score =
            [character_matches |-> character_matches,
             character_mismatches |-> character_mismatches,
             character_hits |-> a.score.character_hits,
             character_misses |-> a.score.character_misses,
             num_words |-> num_correct_words,
             best_char_streak |-> a.score.best_char_streak,
             current_char_streak |-> a.score.current_char_streak]]

\* main.rs:109-133, a message of the background task is received after a
\* frame of last_tick_millis; the ghost cursor of main.rs:119-131 is a field
\* App does not have
on_tick(a, last_tick_millis) ==
    LET a1 == [a EXCEPT !.current_millis = @ + last_tick_millis]
        a2 == IF game_time_remaining_millis(a1) = 0
              THEN [a1 EXCEPT !.game_active = FALSE,
                              !.current_screen = "Results"]
              ELSE a1
    IN  IF a2.game_active THEN refresh_internal_score(a2) ELSE a2

\* What a key handler leaves: the App, and whether the loop goes on, run_app
\* returns, or an index is out of bounds
Flow(a, to) == [app |-> a, run |-> to]

\* main.rs:162-169
on_space(a) ==
    IF a.current_user_input # <<>>
    THEN IF a.current_word_offset >= Len(a.words)
         THEN Flow(a, "panicked")
         ELSE Flow([a EXCEPT
                       !.words[a.current_word_offset + 1].user_attempt =
                           a.current_user_input,
                       !.current_word_offset = @ + 1,
                       !.current_user_input = <<>>],
                   "running")
    ELSE Flow(a, "running")

\* main.rs:179-193, the score after a char that is, or is not, the expected
\* one
ScoreChar(score, is_hit) ==
    LET s == IF is_hit
             THEN [score EXCEPT !.current_char_streak = @ + 1,
                                !.character_hits = @ + 1]
             ELSE [score EXCEPT !.current_char_streak = 0,
                                !.character_misses = @ + 1]
    IN  [s EXCEPT !.best_char_streak =
                      IF @ >= s.current_char_streak
                      THEN @ ELSE s.current_char_streak]

\* main.rs:170-200
on_char(a, char, ctrl) ==
    IF ctrl /\ char = "w"
    THEN Flow([a EXCEPT !.current_user_input = <<>>], "running")
    ELSE IF a.current_word_offset >= Len(a.words)
         THEN Flow(a, "panicked")
         ELSE LET current_word == a.words[a.current_word_offset + 1].word
                  cursor_offset == Len(a.current_user_input)
                  \* chars().nth(cursor_offset) is Some(char)
                  is_hit == /\ cursor_offset < Len(current_word)
                            /\ current_word[cursor_offset + 1] = char
              IN  Flow([a EXCEPT
                           !.score = ScoreChar(@, is_hit),
                           !.game_active = TRUE,
                           !.millis_at_current_game_start =
                               IF a.game_active THEN @ ELSE a.current_millis,
                           !.current_user_input = Append(@, char)],
                       "running")

\* main.rs:201-219
on_backspace(a, ctrl, alt) ==
    LET input == IF ctrl \/ alt THEN <<>> ELSE a.current_user_input
        previous == a.words[a.current_word_offset]
    IN  IF input # <<>>
        THEN [a EXCEPT !.current_user_input = SubSeq(input, 1, Len(input) - 1)]
        ELSE IF /\ a.current_word_offset # 0
                /\ previous.user_attempt # previous.word
             THEN [a EXCEPT !.current_word_offset = @ - 1,
                            !.current_user_input = previous.user_attempt]
             ELSE [a EXCEPT !.current_user_input = input]

\* A key event, or the message of the background task for code "Tick"
Event(code, char, ctrl, alt) ==
    [code |-> code, char |-> char, ctrl |-> ctrl, alt |-> alt]

Tick == Event("Tick", "", FALSE, FALSE)
Char(c) == Event("Char", c, FALSE, FALSE)
Space == Char(" ")
CtrlW == Event("Char", "w", TRUE, FALSE)
Backspace == Event("Backspace", "", FALSE, FALSE)
AltBackspace == Event("Backspace", "", FALSE, TRUE)
Tab == Event("Tab", "", FALSE, FALSE)
Esc == Event("Esc", "", FALSE, FALSE)

Events == {Tick, Char("a"), Space, CtrlW, Backspace, AltBackspace, Tab, Esc}

\* What the loop receives in a short session: any events, in any order
ShortSessions == UNION {[1..n -> Events] : n \in 0..MaxKeys}

\* A long session: one char and a space for every word, and one char more
LongSession ==
    [i \in 1..(2 * NUMBER_OF_WORDS_TO_PICK + 1) |->
        IF i % 2 = 1 THEN Char("a") ELSE Space]

\* No engine is followed: the game is
NoComposer ==
    /\ composer = "None"
    /\ lines = <<>>
    /\ input_lines = <<>>
    /\ max_line_width = 0
    /\ trim = FALSE
    /\ horizontal_offset = 0
    /\ wrapped_lines = <<>>
    /\ current_alignment = "Left"
    /\ current_line = VecNew
    /\ pending_word = <<>>
    /\ pending_whitespace = <<>>
    /\ pending_line_pool = <<>>
    /\ result = None
    /\ emitted = <<>>
    /\ calls = 0
    /\ scan = NoScan

\* main.rs:61-68, the App of a configuration, at the head of the loop
InitGame ==
    \E session \in ShortSessions \cup {LongSession}, time \in 1..MaxTime :
        /\ app = with_config([time |-> time])
        /\ events = session
        /\ run = "running"
        /\ NoComposer

GameFrame ==
    UNCHANGED <<composer, lines, input_lines, max_line_width, trim,
                horizontal_offset, wrapped_lines, current_alignment,
                current_line, pending_word, pending_whitespace,
                pending_line_pool, result, emitted, calls, scan>>

\* The loop receives the event at the head of events
Receives(code) ==
    /\ run = "running"
    /\ events # <<>>
    /\ Head(events).code = code
    /\ events' = Tail(events)

\* main.rs:109-133
TimerTick ==
    /\ Receives("Tick")
    /\ app' = on_tick(app, FrameMillis)
    /\ UNCHANGED run
    /\ GameFrame

\* main.rs:153
EscKey ==
    /\ Receives("Esc")
    /\ run' = "returned"
    /\ UNCHANGED app
    /\ GameFrame

\* main.rs:154, and nothing more in the match on the screen
TabKey ==
    /\ Receives("Tab")
    /\ app' = reset_game(app)
    /\ UNCHANGED run
    /\ GameFrame

\* main.rs:162-200
CharKey ==
    /\ Receives("Char")
    /\ app.current_screen = "Game"
    /\ \E r \in {IF Head(events).char = " "
                 THEN on_space(app)
                 ELSE on_char(app, Head(events).char, Head(events).ctrl)} :
          /\ app' = r.app
          /\ run' = r.run
    /\ GameFrame

\* main.rs:201-219
BackspaceKey ==
    /\ Receives("Backspace")
    /\ app.current_screen = "Game"
    /\ app.game_active
    /\ app' = on_backspace(app, Head(events).ctrl, Head(events).alt)
    /\ UNCHANGED run
    /\ GameFrame

\* main.rs:220-222, a key no binding of the screen takes
IgnoredKey ==
    /\ \/ Receives("Char") /\ app.current_screen # "Game"
       \/ /\ Receives("Backspace")
          /\ ~(app.current_screen = "Game" /\ app.game_active)
    /\ UNCHANGED <<app, run>>
    /\ GameFrame

NextGame ==
    \/ TimerTick
    \/ EscKey
    \/ TabKey
    \/ CharKey
    \/ BackspaceKey
    \/ IgnoredKey

SpecGame == InitGame /\ [][NextGame]_vars

----------------------------------------------------------------------------
(* Vocabulary of the properties *)

Range(s) == {s[i] : i \in 1..Len(s)}

RECURSIVE Flatten(_)
Flatten(ss) == IF ss = <<>> THEN <<>> ELSE Head(ss) \o Flatten(Tail(ss))

IsPrefix(s, t) == Len(s) <= Len(t) /\ SubSeq(t, 1, Len(s)) = s

IsWhitespace(g) == is_whitespace_grapheme(g)
IsContent(g) == ~is_whitespace_grapheme(g)

\* The graphemes of s that are not wider than the line limit
Fits(g) == SymbolWidth(g.symbol) <= max_line_width
Fitting(s) == SelectSeq(s, Fits)

\* How many logical lines the engine has taken from its input
Consumed == Len(lines) - Len(input_lines)

\* The lines returned so far, and those returned for logical line l
EmittedLines == [i \in 1..Len(emitted) |-> emitted[i].line]
LinesOf(l) == {i \in 1..Len(emitted) : emitted[i].source = l}

\* Logical line l has been consumed and all its physical lines returned
Finished(l) ==
    /\ l <= Consumed
    /\ l = Consumed => wrapped_lines = <<>>

\* i..j is a word of s: a maximal run of non-whitespace graphemes
IsWord(s, i, j) ==
    /\ i <= j
    /\ \A k \in i..j : IsContent(s[k])
    /\ i = 1 \/ IsWhitespace(s[i - 1])
    /\ j = Len(s) \/ IsWhitespace(s[j + 1])

WordsOf(s) == {r \in (1..Len(s)) \X (1..Len(s)) : IsWord(s, r[1], r[2])}

WordWidth(s, r) == SumWidth(SubSeq(s, r[1], r[2]))

\* Every line a wrapper returns until it is exhausted, r being what its
\* last call returned
RECURSIVE WrapFrom(_)
WrapFrom(r) ==
    IF r.ret.some
    THEN <<r.ret>> \o WrapFrom(WordWrapper_next_line(r.self))
    ELSE <<>>

WrapAll(w) == WrapFrom(WordWrapper_next_line(w))

Returned ==
    [i \in 1..Len(emitted) |->
        Some(emitted[i].line, emitted[i].width, emitted[i].alignment)]

----------------------------------------------------------------------------
(* The properties *)

\* C1: every physical line the word wrapper returns, for a line limit of at
\* least 1 and either trim setting, has a sum of grapheme widths no greater
\* than the line limit.
C1_WidthBound ==
    (composer = "WordWrapper" /\ max_line_width >= 1) =>
        \A i \in 1..Len(emitted) : SumWidth(emitted[i].line) <= max_line_width

\* C2: when every word of a logical line is no wider than the line limit,
\* the word wrapper returns all graphemes of each word on one and the same
\* physical line, for either trim setting.
C2_WordIntegrity ==
    composer = "WordWrapper" =>
        \A l \in 1..Len(lines) :
            LET s == lines[l].symbols
            IN  (/\ Finished(l)
                 /\ \A r \in WordsOf(s) : WordWidth(s, r) <= max_line_width)
                => \A r \in WordsOf(s) :
                      \E i \in LinesOf(l) :
                          \A k \in r[1]..r[2] : s[k] \in Range(emitted[i].line)

\* C3: the non-whitespace graphemes of the returned lines, in the order
\* returned, are the non-whitespace graphemes of the consumed logical lines
\* that fit the line limit, in their order, each with its symbol and style.
C3_ContentPreserved ==
    (composer = "WordWrapper" /\ max_line_width >= 1) =>
        LET got == SelectSeq(Flatten(EmittedLines), IsContent)
            all == Flatten([l \in 1..Consumed |-> lines[l].symbols])
            expected == SelectSeq(Fitting(all), IsContent)
        IN  /\ IsPrefix(got, expected)
            /\ wrapped_lines = <<>> => got = expected

C3_Witness ==
    /\ composer = "WordWrapper"
    /\ max_line_width = 1
    /\ input_lines = <<>>
    /\ wrapped_lines = <<>>
    /\ Len(emitted) = 2
    /\ \E i \in 1..Len(lines[1].symbols) : ~Fits(lines[1].symbols[i])
    /\ \E i \in 1..Len(lines[1].symbols) : IsWhitespace(lines[1].symbols[i])
    /\ Len(SelectSeq(Flatten(EmittedLines), IsContent)) = 2

\* C4: a logical line that is one word of W ordinary (width 1) letters,
\* W greater than the line limit, comes out as ceil(W / limit) physical
\* lines, all but the last of exactly the limit's width, whose
\* concatenation is the word.
C4_HardBreak ==
    LET s == lines[1].symbols
        W == Len(s)
    IN  (/\ composer = "WordWrapper"
         /\ Len(lines) = 1
         /\ \A k \in 1..W : s[k].symbol = "a"
         /\ max_line_width >= 1
         /\ W > max_line_width
         /\ Finished(1))
        => /\ Len(emitted) = (W + max_line_width - 1) \div max_line_width
           /\ \A i \in 1..(Len(emitted) - 1) : emitted[i].width = max_line_width
           /\ \A i \in 1..Len(emitted) :
                 SumWidth(emitted[i].line) <= max_line_width
           /\ Flatten(EmittedLines) = s

\* Scenario B: a word of width 15 under a limit of 10 is returned as two
\* lines of widths 10 and 5
C4_Witness ==
    /\ composer = "WordWrapper"
    /\ Len(lines) = 1
    /\ Len(lines[1].symbols) = 15
    /\ max_line_width = 10
    /\ Finished(1)
    /\ Len(emitted) = 2
    /\ emitted[1].width = 10
    /\ emitted[2].width = 5

\* The logical line l without the graphemes wider than the line limit
FittingLine(l) ==
    [symbols |-> Fitting(lines[l].symbols), alignment |-> lines[l].alignment]

\* C5: no line returned by either engine holds a grapheme wider than the
\* line limit, and the lines returned are those returned for the same input
\* with these graphemes taken out.
C5_WideDropped ==
    max_line_width >= 1 =>
        /\ \A i \in 1..Len(emitted) : \A g \in Range(emitted[i].line) : Fits(g)
        /\ composer = "WordWrapper" =>
              IsPrefix(Returned,
                       WrapAll(WordWrapperNew([l \in 1..Len(lines) |-> FittingLine(l)],
                                              max_line_width, trim)))
        /\ composer = "LineTruncator" =>
              \A i \in 1..Len(emitted) :
                 Returned[i] =
                    LineTruncator_next_line(
                        set_horizontal_offset(
                            LineTruncatorNew(<<FittingLine(emitted[i].source)>>,
                                             max_line_width),
                            emitted[i].offset)).ret

\* A wrapper returned, on one line, a letter from before and a letter from
\* after a grapheme too wide for the limit
C5_Witness ==
    /\ composer = "WordWrapper"
    /\ max_line_width = 1
    /\ Len(lines) = 1
    /\ Len(lines[1].symbols) = 3
    /\ lines[1].symbols[1].symbol = "c"
    /\ lines[1].symbols[2].symbol = "W"
    /\ lines[1].symbols[3].symbol = "a"
    /\ Len(emitted) = 1
    /\ Len(emitted[1].line) = 2

\* C6: with a line limit of 0 every call of next_line, of either engine,
\* returns the end marker: no line is ever returned.
C6_ZeroWidth ==
    max_line_width = 0 => (~result.some /\ emitted = <<>>)

C6_Witness ==
    /\ max_line_width = 0
    /\ calls = 2
    /\ Len(lines) = 2
    /\ lines[1].symbols # <<>>

\* C7: with a line limit of at least 1, every logical line the word wrapper
\* has consumed has a physical line of its own among those returned, made
\* of graphemes of that logical line only, and the physical lines come in
\* the order of their logical lines.
C7_NoLineVanishes ==
    (composer = "WordWrapper" /\ max_line_width >= 1) =>
        /\ \A l \in 1..Consumed : LinesOf(l) # {}
        /\ \A i \in 1..Len(emitted) :
              /\ \A g \in Range(emitted[i].line) : g.style[1] = emitted[i].source
              /\ \A j \in 1..Len(emitted) :
                    i < j => emitted[i].source <= emitted[j].source

\* A line of whitespace only, under trim, and the line with content after
\* it have each produced a physical line
C7_Witness ==
    /\ composer = "WordWrapper"
    /\ max_line_width = 1
    /\ trim
    /\ Len(lines) = 2
    /\ lines[1].symbols # <<>>
    /\ \A g \in Range(lines[1].symbols) : IsWhitespace(g)
    /\ lines[2].symbols # <<>>
    /\ Consumed = 2
    /\ LinesOf(1) # {}
    /\ LinesOf(2) # {}

\* C8: a logical line of one or more whitespace graphemes, of total width
\* no greater than the line limit, produces exactly one physical line: the
\* empty line when trim is set, the whitespace line when it is not.
C8_WhitespaceOnly ==
    LET s == lines[1].symbols
    IN  (/\ composer = "WordWrapper"
         /\ Len(lines) = 1
         /\ s # <<>>
         /\ \A g \in Range(s) : IsWhitespace(g)
         /\ SumWidth(s) <= max_line_width
         /\ Finished(1))
        => /\ Len(emitted) = 1
           /\ emitted[1].line = IF trim THEN <<>> ELSE s

\* C9: every line returned by either engine carries the alignment of the
\* logical line it was made from.
C9_AlignmentInherited ==
    \A i \in 1..Len(emitted) :
        /\ emitted[i].source \in 1..Len(lines)
        /\ \A g \in Range(emitted[i].line) : g.style[1] = emitted[i].source
        /\ emitted[i].alignment = lines[emitted[i].source].alignment

\* Two logical lines of different alignments, the first of them wrapped
\* into two physical lines
C9_Witness ==
    /\ composer = "WordWrapper"
    /\ Len(lines) = 2
    /\ lines[1].alignment = "Right"
    /\ lines[2].alignment = "Center"
    /\ Cardinality(LinesOf(1)) = 2
    /\ \A i \in LinesOf(1) : emitted[i].line # <<>>
    /\ LinesOf(2) # {}

\* C10: the lines the word wrapper has returned for an input, given as the
\* logical lines of a new wrapper with the same limit and trim setting,
\* come back as the same sequence of lines.
C10_Idempotent ==
    (/\ composer = "WordWrapper"
     /\ max_line_width >= 1
     /\ input_lines = <<>>
     /\ wrapped_lines = <<>>)
    => WrapAll(WordWrapperNew(
                  [i \in 1..Len(emitted) |->
                      [symbols |-> emitted[i].line,
                       alignment |-> emitted[i].alignment]],
                  max_line_width, trim)) = Returned

\* The first non-whitespace grapheme of a line that has one
FirstContent(line) ==
    line[CHOOSE j \in 1..Len(line) :
            /\ IsContent(line[j])
            /\ \A k \in 1..(j - 1) : IsWhitespace(line[k])]

\* The word of s that position k lies in
WordAt(s, k) == CHOOSE r \in WordsOf(s) : r[1] <= k /\ k <= r[2]

\* The width of the run of whitespace of s that ends just before position j
WhitespaceBefore(s, j) ==
    LET a == CHOOSE a \in 1..j :
                /\ \A k \in a..(j - 1) : IsWhitespace(s[k])
                /\ a = 1 \/ IsContent(s[a - 1])
    IN  SumWidth(SubSeq(s, a, j - 1))

\* C11: under trim, for a logical line whose words are all no wider than
\* the line limit, whenever a returned line is followed by another line of
\* the same logical line, the first word of that line did not fit on the
\* line before it: the width of the earlier line, plus the whitespace run
\* before the word, plus the word, exceeds the line limit.
C11_GreedyPacking ==
    (composer = "WordWrapper" /\ trim /\ max_line_width >= 1) =>
        \A i \in 1..(Len(emitted) - 1) :
            LET s == lines[emitted[i].source].symbols
                new == emitted[i + 1].line
            IN  (/\ emitted[i + 1].source = emitted[i].source
                 /\ \A r \in WordsOf(s) : WordWidth(s, r) <= max_line_width
                 /\ \E j \in 1..Len(new) : IsContent(new[j]))
                => LET r == WordAt(s, FirstContent(new).style[2])
                   IN  SumWidth(emitted[i].line) + WhitespaceBefore(s, r[1])
                           + WordWidth(s, r) > max_line_width

\* C12: under trim, with a line limit of at least 1, no line the word
\* wrapper returns begins with a whitespace grapheme.
C12_NoLeadingWhitespace ==
    (composer = "WordWrapper" /\ trim /\ max_line_width >= 1) =>
        \A i \in 1..Len(emitted) :
            emitted[i].line # <<>> => IsContent(emitted[i].line[1])

\* A logical line that begins with whitespace and has whitespace between
\* its words was returned, under trim, as two lines with content
C12_Witness ==
    /\ composer = "WordWrapper"
    /\ trim
    /\ max_line_width >= 1
    /\ Len(lines) = 1
    /\ Len(lines[1].symbols) = 4
    /\ IsWhitespace(lines[1].symbols[1])
    /\ IsContent(lines[1].symbols[2])
    /\ IsWhitespace(lines[1].symbols[3])
    /\ IsContent(lines[1].symbols[4])
    /\ Len(emitted) = 2
    /\ emitted[1].line # <<>>
    /\ emitted[2].line # <<>>

\* C13: under trim, no line the word wrapper returns ends with a
\* whitespace grapheme, the last line of a logical line that ends in
\* whitespace included.
C13_NoTrailingWhitespace ==
    (composer = "WordWrapper" /\ trim /\ max_line_width >= 1) =>
        \A i \in 1..Len(emitted) :
            emitted[i].line # <<>> =>
                IsContent(emitted[i].line[Len(emitted[i].line)])

\* C14: once a call of next_line, of either engine, has returned the end
\* marker, every later call returns the end marker and adds no line to
\* those returned.
C14_ExhaustionPermanent ==
    [][calls >= 1 => (~result'.some /\ emitted' = emitted)]_vars

\* A wrapper that returned lines for two logical lines has been called
\* twice after its input ran out
C14_Witness ==
    /\ composer = "WordWrapper"
    /\ max_line_width >= 1
    /\ Len(lines) = 2
    /\ Len(emitted) >= 2
    /\ input_lines = <<>>
    /\ calls = 2
    /\ ~result.some

\* C15: with a line limit of at least 1, the truncator has returned no
\* more lines than it has consumed logical lines, at most one for each;
\* every returned line is no wider than the line limit; and a returned
\* line holds graphemes of its own logical line only, so what was cut off
\* one logical line is in no later line.
C15_OneBoundedLine ==
    (composer = "LineTruncator" /\ max_line_width >= 1) =>
        /\ Len(emitted) <= Consumed
        /\ \A i \in 1..Len(emitted) :
              /\ emitted[i].width <= max_line_width
              /\ SumWidth(emitted[i].line) <= max_line_width
              /\ \A g \in Range(emitted[i].line) : g.style[1] = emitted[i].source
              /\ \A j \in 1..Len(emitted) :
                    i < j => emitted[i].source < emitted[j].source

\* A logical line of two letters was cut to one under a limit of 1, and the
\* line returned for the empty logical line after it is empty
C15_Witness ==
    /\ composer = "LineTruncator"
    /\ max_line_width = 1
    /\ Len(lines) = 2
    /\ Len(lines[1].symbols) = 2
    /\ \A g \in Range(lines[1].symbols) : g.symbol = "a"
    /\ Len(emitted) = 2
    /\ Len(emitted[1].line) = 1
    /\ emitted[2].line = <<>>

\* C16: with offset 0 and any alignment, the line the truncator returns is
\* the longest prefix of the logical line, taken without the graphemes
\* wider than the line limit, whose width is within the limit, every
\* grapheme with its symbol and style; a logical line that fits the limit
\* is returned as it is.
C16_LongestPrefix ==
    (composer = "LineTruncator" /\ max_line_width >= 1) =>
        \A i \in 1..Len(emitted) :
            emitted[i].offset = 0 =>
                LET f == Fitting(lines[emitted[i].source].symbols)
                    n == Len(emitted[i].line)
                IN  /\ IsPrefix(emitted[i].line, f)
                    /\ emitted[i].width = SumWidth(emitted[i].line)
                    /\ emitted[i].width <= max_line_width
                    /\ n < Len(f) => SumWidth(SubSeq(f, 1, n + 1)) > max_line_width
                    /\ SumWidth(lines[emitted[i].source].symbols) <= max_line_width
                          => emitted[i].line = lines[emitted[i].source].symbols

\* A centred line that begins with a grapheme too wide for the limit and
\* goes on with two letters came back as the first letter alone
C16_Witness ==
    /\ composer = "LineTruncator"
    /\ max_line_width = 1
    /\ horizontal_offset = 0
    /\ Len(lines) = 1
    /\ lines[1].alignment = "Center"
    /\ Len(lines[1].symbols) = 3
    /\ lines[1].symbols[1].symbol = "W"
    /\ lines[1].symbols[2].symbol = "a"
    /\ lines[1].symbols[3].symbol = "a"
    /\ Len(emitted) = 1
    /\ emitted[1].line = <<lines[1].symbols[2]>>

\* The graphemes of s after its first columns are removed, whole graphemes
\* only: a grapheme wider than what is left to remove stays
RECURSIVE DropColumns(_, _)
DropColumns(s, columns) ==
    IF s = <<>> \/ columns = 0
    THEN s
    ELSE IF SymbolWidth(Head(s).symbol) > columns
         THEN s
         ELSE DropColumns(Tail(s), columns - SymbolWidth(Head(s).symbol))

\* C17: for a left-aligned logical line and an offset no greater than the
\* width of the line, the line the truncator returns under that offset,
\* graphemes and width, is the line it returns under offset 0 for the
\* logical line without its first offset columns of graphemes.
C17_OffsetEquivalence ==
    (composer = "LineTruncator" /\ max_line_width >= 1) =>
        \A i \in 1..Len(emitted) :
            LET l == lines[emitted[i].source]
                O == emitted[i].offset
                shifted == [symbols |-> DropColumns(l.symbols, O),
                            alignment |-> l.alignment]
                want == LineTruncator_next_line(
                            LineTruncatorNew(<<shifted>>, max_line_width)).ret
            IN  (l.alignment = "Left" /\ O <= SumWidth(l.symbols))
                => /\ emitted[i].line = want.line
                   /\ emitted[i].width = want.width

\* C18: for a centred or right-aligned logical line, the line the
\* truncator returns under any offset is the line it returns under
\* offset 0.
C18_OffsetLeftOnly ==
    composer = "LineTruncator" =>
        \A i \in 1..Len(emitted) :
            LET l == lines[emitted[i].source]
            IN  l.alignment # "Left" =>
                    Returned[i] =
                        LineTruncator_next_line(
                            LineTruncatorNew(<<l>>, max_line_width)).ret

\* A right-aligned line of letters was returned whole under offset 2
C18_Witness ==
    /\ composer = "LineTruncator"
    /\ horizontal_offset = 2
    /\ Len(lines) = 1
    /\ lines[1].alignment = "Right"
    /\ Len(lines[1].symbols) = 3
    /\ \A g \in Range(lines[1].symbols) : g.symbol = "a"
    /\ Len(emitted) = 1
    /\ emitted[1].offset = 2
    /\ emitted[1].line = lines[1].symbols

\* The wrapper w with nothing in its pool: the next pending line it takes
\* is freshly allocated
NoPool(w) == [w EXCEPT !.pending_line_pool = <<>>]

\* Every line a wrapper returns until it is exhausted when each call finds
\* the pool empty, r being what its last call returned
RECURSIVE WrapFromFresh(_)
WrapFromFresh(r) ==
    IF r.ret.some
    THEN <<r.ret>> \o WrapFromFresh(WordWrapper_next_line(NoPool(r.self)))
    ELSE <<>>

\* C19: the lines the word wrapper returns, content, order, width and
\* alignment, are those of the same wrapper when every pending line is
\* freshly allocated in place of a buffer from the pool; no returned line
\* holds a grapheme of an earlier logical line.
C19_PoolUnobservable ==
    composer = "WordWrapper" =>
        /\ IsPrefix(Returned,
                    WrapFromFresh(WordWrapper_next_line(
                        WordWrapperNew(lines, max_line_width, trim))))
        /\ \A i \in 1..Len(emitted) :
              \A g \in Range(emitted[i].line) : g.style[1] = emitted[i].source

\* The first logical line came back as two lines, so the buffer of the
\* first of them was in the pool when the second logical line, an empty
\* one, was processed; it is back in the pool with the buffer of the second
C19_Witness ==
    /\ composer = "WordWrapper"
    /\ max_line_width = 1
    /\ Len(lines) = 2
    /\ Len(lines[1].symbols) = 2
    /\ Len(emitted) = 3
    /\ emitted[1].line # <<>>
    /\ emitted[2].line # <<>>
    /\ emitted[3].source = 2
    /\ emitted[3].line = <<>>
    /\ Len(pending_line_pool) = 2

\* C20: for every line limit from 1 to u16::MAX and every input, no u16
\* addition or subtraction of widths in process_input or in either
\* next_line overflows or underflows: no call panics, and none goes on
\* with a wrapped width.
C20_NoArithmeticFailure ==
    scan.at # "panicked" /\ ~scan.overflowed

\* C21: a logical line made of a word A, one zero-width space and a word
\* B, each word no wider than the line limit and the two together wider,
\* is returned with all of A on one line and all of B on another.
C21_ZwspBreaks ==
    LET s == lines[1].symbols
    IN  (composer = "WordWrapper" /\ max_line_width >= 1 /\ Len(lines) = 1
         /\ Finished(1))
        => \A k \in 2..(Len(s) - 1) :
              LET A == SubSeq(s, 1, k - 1)
                  B == SubSeq(s, k + 1, Len(s))
              IN  (/\ s[k].symbol = ZWSP
                   /\ \A g \in Range(A) \cup Range(B) : IsContent(g)
                   /\ SumWidth(A) <= max_line_width
                   /\ SumWidth(B) <= max_line_width
                   /\ SumWidth(A) + SumWidth(B) > max_line_width)
                  => \E i, j \in LinesOf(1) :
                        /\ i # j
                        /\ Range(A) \subseteq Range(emitted[i].line)
                        /\ Range(B) \subseteq Range(emitted[j].line)

\* C22: a non-breaking space is word content: a run of non-whitespace
\* graphemes that holds one and is no wider than the line limit is returned
\* on one line, and every non-breaking space of a logical line is in a
\* line returned for it, under either trim setting.
C22_NbspKept ==
    (composer = "WordWrapper" /\ max_line_width >= 1) =>
        \A l \in 1..Len(lines) :
            LET s == lines[l].symbols
            IN  Finished(l) =>
                  /\ \A k \in 1..Len(s) :
                        s[k].symbol = NBSP =>
                            \E i \in LinesOf(l) : s[k] \in Range(emitted[i].line)
                  /\ \A r \in WordsOf(s) :
                        (/\ \E k \in r[1]..r[2] : s[k].symbol = NBSP
                         /\ WordWidth(s, r) <= max_line_width)
                        => \E i \in LinesOf(l) :
                              \A k \in r[1]..r[2] : s[k] \in Range(emitted[i].line)

\* The iteration of the loop that process_input begins with the locals p:
\* the locals after the segment is appended, after the line is pushed and
\* after the iteration, and whether the line was pushed
IterationOf(p) ==
    LET grapheme == Head(p.line_symbols)
        symbol_width == SymbolWidth(grapheme.symbol)
        is_whitespace == is_whitespace_grapheme(grapheme)
        p1 == IF SegmentFinished(p, is_whitespace, symbol_width,
                                 max_line_width, trim)
              THEN AppendSegment(p, trim)
              ELSE p
    IN  [grapheme |-> grapheme,
         is_whitespace |-> is_whitespace,
         p1 |-> p1,
         p2 |-> PushWrappedLine(p1, max_line_width),
         p3 |-> ProcessSymbol(p, grapheme, max_line_width, trim),
         pushed |-> /\ ~SymbolTooWide(symbol_width, max_line_width)
                    /\ LineFinished(p1, symbol_width, max_line_width)]

\* The iterations of the loop from the locals p to the end of the line
RECURSIVE IterationsFrom(_)
IterationsFrom(p) ==
    IF p.line_symbols = <<>>
    THEN {}
    ELSE UNION {{it} \cup IterationsFrom(
                             [it.p3 EXCEPT !.line_symbols = Tail(p.line_symbols)]) :
                   it \in {IterationOf(p)}}

\* The iterations of the loop of process_input on logical line l
IterationsOn(l) ==
    IterationsFrom(TakePendingLine(WordWrapperNew(<<>>, max_line_width, trim),
                                   lines[l].symbols))

\* C23: each time the word wrapper pushes a line before the end of a
\* logical line, what it removes is a prefix of the pending whitespace of
\* width no greater than the line limit minus the width of the pushed line
\* (0 when that line is wider), the rest staying pending; the whitespace
\* grapheme being scanned is dropped only when nothing stays pending; the
\* pushed line and the pending word lose no grapheme.  The iterations are
\* those of the call that has just consumed the logical line.
C23_RemovedWhitespaceLimited ==
    (/\ composer = "WordWrapper"
     /\ max_line_width >= 1
     /\ Consumed >= 1
     /\ Cardinality(LinesOf(Consumed)) = 1) =>
        \A it \in IterationsOn(Consumed) :
            LET before == it.p1.pending_whitespace
                after == it.p2.pending_whitespace
                removed == Len(before) - Len(after)
                scanned == <<it.grapheme>>
            IN  it.pushed =>
                  /\ removed >= 0
                  /\ after = SubSeq(before, removed + 1, Len(before))
                  /\ SumWidth(SubSeq(before, 1, removed))
                        <= SatSub(max_line_width, SumWidth(it.p1.pending_line.elems))
                  /\ it.p2.whitespace_width = SumWidth(after)
                  /\ it.p2.wrapped_lines[Len(it.p2.wrapped_lines)] = it.p1.pending_line
                  /\ it.p3.pending_whitespace =
                        IF it.is_whitespace
                        THEN (IF after = <<>> THEN <<>> ELSE after \o scanned)
                        ELSE after
                  /\ it.p3.pending_word =
                        IF it.is_whitespace
                        THEN it.p1.pending_word
                        ELSE it.p1.pending_word \o scanned

\* 'a', two spaces, 'a' under a limit of 2 without trim: the line 'a' was
\* pushed with one column left, and both spaces are gone; the first line
\* is returned and the second is queued
C23_Witness ==
    /\ composer = "WordWrapper"
    /\ ~trim
    /\ max_line_width = 2
    /\ Len(lines) = 1
    /\ Len(lines[1].symbols) = 4
    /\ lines[1].symbols[1].symbol = "a"
    /\ lines[1].symbols[2].symbol = " "
    /\ lines[1].symbols[3].symbol = " "
    /\ lines[1].symbols[4].symbol = "a"
    /\ \E it \in IterationsOn(1) : it.grapheme = lines[1].symbols[3] /\ it.pushed
    /\ Len(emitted) = 1
    /\ Len(emitted[1].line) = 1
    /\ Len(wrapped_lines) = 1
    /\ Len(wrapped_lines[1].elems) = 1

\* The column at which grapheme k of s begins
Column(s, k) == SumWidth(SubSeq(s, 1, k - 1))

\* Grapheme k of s lies wholly inside the first columns of s
InsideColumns(s, k, columns) ==
    /\ Column(s, k) < columns
    /\ Column(s, k) + SymbolWidth(s[k].symbol) <= columns

\* The graphemes of a returned line that have content
Visible(line) == SelectSeq(line, LAMBDA g : g.symbol # "")

\* C24: for a left-aligned logical line under offset O, the graphemes that
\* lie wholly inside the first O columns are not in the returned line; a
\* grapheme that column O falls strictly inside is in it, whole, with its
\* symbol and style; and the graphemes with content of the returned line
\* are, unchanged, those that follow the skipped ones, as far as the line
\* limit lets them in.
C24_OffsetSkipping ==
    (composer = "LineTruncator" /\ max_line_width >= 1) =>
        \A i \in 1..Len(emitted) :
            LET s == lines[emitted[i].source].symbols
                O == emitted[i].offset
                kept == {k \in 1..Len(s) : ~InsideColumns(s, k, O)}
                following == [symbols |-> SelectSeq(s, LAMBDA g :
                                              g.style[2] \in kept),
                              alignment |-> "Left"]
            IN  lines[emitted[i].source].alignment = "Left" =>
                  /\ \A k \in 1..Len(s) :
                        InsideColumns(s, k, O) => s[k] \notin Range(emitted[i].line)
                  /\ \A k \in 1..Len(s) :
                        (Column(s, k) < O /\ O < Column(s, k) + SymbolWidth(s[k].symbol))
                        => s[k] \in Range(emitted[i].line)
                  /\ Visible(emitted[i].line) =
                        LineTruncator_next_line(
                            LineTruncatorNew(<<following>>, max_line_width)).ret.line

\* C25: the width of every line returned by either engine is the sum of
\* the widths of the graphemes of the line, under any offset.
C25_WidthExact ==
    /\ \A i \in 1..Len(emitted) : emitted[i].width = SumWidth(emitted[i].line)
    /\ result.some => result.width = SumWidth(result.line)

\* A truncator under offset 1 returned a line whose first grapheme was
\* skipped and whose second, a double-width one, makes its width 2
C25_Witness ==
    /\ composer = "LineTruncator"
    /\ Len(emitted) = 1
    /\ emitted[1].offset = 1
    /\ Len(emitted[1].line) = 2
    /\ emitted[1].line[1].symbol = ""
    /\ emitted[1].line[2].symbol = "W"
    /\ emitted[1].width = 2
    /\ result.some

\* The number of buffers the pool is allowed: whatever constant is taken,
\* the words of the model are long enough to pass it
PoolLimit == MaxWordLen - 2

\* C26: during a pass of the word wrapper the number of buffers in
\* pending_line_pool stays within a constant, however many lines have been
\* returned.
C26_PoolBounded ==
    composer = "WordWrapper" => Len(pending_line_pool) <= PoolLimit

\* C27: for a logical line that has a non-whitespace grapheme no wider
\* than the line limit, no line the word wrapper returns is empty, under
\* either trim setting.
C27_NoEmptyLine ==
    (composer = "WordWrapper" /\ max_line_width >= 1) =>
        \A l \in 1..Len(lines) :
            (/\ Finished(l)
             /\ \E g \in Range(lines[l].symbols) : IsContent(g) /\ Fits(g))
            => \A i \in LinesOf(l) : emitted[i].line # <<>>


\* The lines the word wrapper returns for logical line l when it is the
\* only line of the input
WrapAlone(l) == WrapAll(WordWrapperNew(<<lines[l]>>, max_line_width, trim))

\* C28: the physical lines the word wrapper returns for logical lines
\* L1..Ln are the concatenation, in input order, of the lines it returns
\* for each Li alone: what has been returned so far is a prefix of that
\* concatenation for the logical lines consumed, and the whole of it once
\* the last physical line of these is returned.
C28_LinesIndependent ==
    (composer = "WordWrapper" /\ max_line_width >= 1) =>
        \A alone \in {Flatten([l \in 1..Consumed |-> WrapAlone(l)])} :
            /\ IsPrefix(Returned, alone)
            /\ wrapped_lines = <<>> => Returned = alone

\* Under trim the first logical line, a single space, left its space in
\* pending_whitespace; the second, a letter, came back as that letter alone
C28_Witness ==
    /\ composer = "WordWrapper"
    /\ trim
    /\ max_line_width = 1
    /\ Len(lines) = 2
    /\ Len(lines[1].symbols) = 1
    /\ lines[1].symbols[1].symbol = " "
    /\ Len(emitted) = 2
    /\ emitted[1].line = <<>>
    /\ emitted[2].source = 2
    /\ emitted[2].line = lines[2].symbols
    /\ Len(emitted[2].line) = 1
    /\ emitted[2].line[1].symbol = "a"


\* C29: after any sequence of key events on the game screen (characters,
\* space, backspace, ctrl-w, tab), current_word_offset is smaller than the
\* number of words, and no access words[current_word_offset] is out of
\* bounds.
C29_WordIndexInRange ==
    run # "idle" =>
        /\ app.current_word_offset < Len(app.words)
        /\ run # "panicked"

\* The loop took the key at the head of events
KeyEvent ==
    /\ run = "running"
    /\ events # <<>>
    /\ Head(events).code # "Tick"
    /\ events' = Tail(events)

\* The loop took a tab: the game was reset
GameReset == KeyEvent /\ Head(events).code = "Tab"

\* C30: between two resets of the game, character_hits, character_misses
\* and best_char_streak never decrease, whatever the key or the tick of the
\* timer; and after every key event best_char_streak is at least
\* current_char_streak.
C30_CountersMonotone ==
    [][/\ (run # "idle" /\ ~GameReset) =>
             /\ app'.score.character_hits >= app.score.character_hits
             /\ app'.score.character_misses >= app.score.character_misses
             /\ app'.score.best_char_streak >= app.score.best_char_streak
       /\ KeyEvent =>
             app'.score.best_char_streak >= app'.score.current_char_streak]_vars

\* Two chars were typed right and one was erased; the score was refreshed
\* after that, and counts one match for the two hits of the session
C30_Witness ==
    /\ run = "running"
    /\ app.game_active
    /\ app.score.character_hits = 2
    /\ app.score.character_matches = 1
    /\ app.score.best_char_streak = 2
    /\ app.score.current_char_streak = 2
    /\ Len(app.current_user_input) = 1

====
